---------------------------- MODULE Spec2Model ----------------------------
(***************************************************************************)
(* Model of generate_ics_from_file.py: a script that reads dates from a    *)
(* text file, merges them as all-day events titled EVENT_SUMMARY into an   *)
(* ICS calendar file and writes the file back.                             *)
(*                                                                         *)
(* Text is modelled as sequences of one-character strings; a calendar file *)
(* is a sequence of items (container markers, VEVENT blocks whose DTSTART  *)
(* is text, blank and junk lines).  The script is run twice in a row on    *)
(* the same input file, so that a second run can be compared to the first. *)
(***************************************************************************)
EXTENDS Integers, Sequences, FiniteSets

VARIABLES
    txtFile,          \* adjusted_dates.txt: [kind, lines]; kind "broken": reading
                      \* fails after lines
    icsFile,          \* china_adjusted_workdays.ics: [kind, content]
    pc,               \* position of the main program
    run,              \* "first" or "second" invocation of the script
    adjustment_dates, \* value returned by read_dates_from_file
    invalid_lines,    \* the reader's list of rejected lines
    scans,            \* number of times the reader opened and scanned the file
    confirm,          \* the reader's variable confirm (NoAnswer: not asked)
    retry,            \* the reader's variable retry (NoAnswer: not asked)
    calendar,         \* the in-memory Calendar's events
    existing_dates,   \* the covered-date set
    added_count,      \* value returned by add_adjustment_events
    next_uid,         \* the UID the next Event() draws
    printed,          \* kinds of message printed in this run
    raised,           \* TRUE when an exception reached the top level
    entry,            \* calendar and covered set on entry to add_adjustment_events
    save,             \* this run's save_calendar call: [outcome, before]
    runStart,         \* the output file when this run started
    first             \* what the first run did: [confirmed, save, after]

vars == <<txtFile, icsFile, pc, run, adjustment_dates, invalid_lines, scans,
          confirm, retry, calendar, existing_dates, added_count, next_uid,
          printed, raised, entry, save, runStart, first>>

-----------------------------------------------------------------------------
(* Bounds of the model *)

MaxLines == 2

MaxEvents == 2

-----------------------------------------------------------------------------
(* Configuration (lines 15-17).  The title is the ASCII stand-in of the     *)
(* source's four-character Chinese title.                                  *)

EVENT_SUMMARY == "TiaoXiuShangBan"

OtherSummary == "Holiday"

-----------------------------------------------------------------------------
(* Characters and text: a character is its Unicode code point, a text the  *)
(* sequence of its characters.                                             *)

\* the characters DIGIT ZERO of the decimal digits \d matches in a str
\* pattern (category Nd); the nine digits that follow each are its 1..9
NdZeros ==
    { 48, 1632, 1776, 1984, 2406, 2534, 2662, 2790, 2918, 3046,
      3174, 3302, 3430, 3558, 3664, 3792, 3872, 4160, 4240, 6112,
      6160, 6470, 6608, 6784, 6800, 6992, 7088, 7232, 7248, 42528,
      43216, 43264, 43472, 43504, 43600, 44016, 65296, 66720, 68912, 69734,
      69872, 69942, 70096, 70384, 70736, 70864, 71248, 71360, 71472, 71904,
      72016, 72784, 73040, 73120, 92768, 92864, 93008, 120782, 120792, 120802,
      120812, 120822, 123200, 123632, 125264, 130032 }

\* \d
Digit == UNION { z..(z + 9) : z \in NdZeros }

\* the characters str.strip() removes (str.isspace)
Whitespace ==
    { 9, 10, 11, 12, 13, 28, 29, 30, 31, 32, 133, 160, 5760 }
    \cup (8192..8202) \cup { 8232, 8233, 8239, 8287, 12288 }

\* int() of a decimal digit
DigitVal(c) == c - (CHOOSE z \in NdZeros : c \in z..(z + 9))

\* the ASCII digit of n
DigitChar(n) == 48 + n

RECURSIVE LStrip(_)
LStrip(s) ==
    IF s = <<>> THEN s
    ELSE IF Head(s) \in Whitespace THEN LStrip(Tail(s)) ELSE s

RECURSIVE RStrip(_)
RStrip(s) ==
    IF s = <<>> THEN s
    ELSE IF s[Len(s)] \in Whitespace THEN RStrip(SubSeq(s, 1, Len(s) - 1)) ELSE s

\* str.strip()
Strip(s) == RStrip(LStrip(s))

\* str.lower(): the cased characters whose lower case is one other
\* character, as <<first, last, step, offset>>: every step-th character from
\* first to last has the lower case that many code points further
LowerCaseOffsets ==
    { <<65, 90, 1, 32>>, <<192, 214, 1, 32>>, <<216, 222, 1, 32>>, <<256, 302, 2, 1>>,
      <<306, 310, 2, 1>>, <<313, 327, 2, 1>>, <<330, 374, 2, 1>>, <<376, 376, 1, -121>>,
      <<377, 381, 2, 1>>, <<385, 385, 1, 210>>, <<386, 388, 2, 1>>, <<390, 390, 1, 206>>,
      <<391, 391, 1, 1>>, <<393, 394, 1, 205>>, <<395, 395, 1, 1>>, <<398, 398, 1, 79>>,
      <<399, 399, 1, 202>>, <<400, 400, 1, 203>>, <<401, 401, 1, 1>>, <<403, 403, 1, 205>>,
      <<404, 404, 1, 207>>, <<406, 406, 1, 211>>, <<407, 407, 1, 209>>, <<408, 408, 1, 1>>,
      <<412, 412, 1, 211>>, <<413, 413, 1, 213>>, <<415, 415, 1, 214>>, <<416, 420, 2, 1>>,
      <<422, 422, 1, 218>>, <<423, 423, 1, 1>>, <<425, 425, 1, 218>>, <<428, 428, 1, 1>>,
      <<430, 430, 1, 218>>, <<431, 431, 1, 1>>, <<433, 434, 1, 217>>, <<435, 437, 2, 1>>,
      <<439, 439, 1, 219>>, <<440, 440, 1, 1>>, <<444, 444, 1, 1>>, <<452, 452, 1, 2>>,
      <<453, 453, 1, 1>>, <<455, 455, 1, 2>>, <<456, 456, 1, 1>>, <<458, 458, 1, 2>>,
      <<459, 475, 2, 1>>, <<478, 494, 2, 1>>, <<497, 497, 1, 2>>, <<498, 500, 2, 1>>,
      <<502, 502, 1, -97>>, <<503, 503, 1, -56>>, <<504, 542, 2, 1>>, <<544, 544, 1, -130>>,
      <<546, 562, 2, 1>>, <<570, 570, 1, 10795>>, <<571, 571, 1, 1>>, <<573, 573, 1, -163>>,
      <<574, 574, 1, 10792>>, <<577, 577, 1, 1>>, <<579, 579, 1, -195>>, <<580, 580, 1, 69>>,
      <<581, 581, 1, 71>>, <<582, 590, 2, 1>>, <<880, 882, 2, 1>>, <<886, 886, 1, 1>>,
      <<895, 895, 1, 116>>, <<902, 902, 1, 38>>, <<904, 906, 1, 37>>, <<908, 908, 1, 64>>,
      <<910, 911, 1, 63>>, <<913, 929, 1, 32>>, <<931, 939, 1, 32>>, <<975, 975, 1, 8>>,
      <<984, 1006, 2, 1>>, <<1012, 1012, 1, -60>>, <<1015, 1015, 1, 1>>, <<1017, 1017, 1, -7>>,
      <<1018, 1018, 1, 1>>, <<1021, 1023, 1, -130>>, <<1024, 1039, 1, 80>>, <<1040, 1071, 1, 32>>,
      <<1120, 1152, 2, 1>>, <<1162, 1214, 2, 1>>, <<1216, 1216, 1, 15>>, <<1217, 1229, 2, 1>>,
      <<1232, 1326, 2, 1>>, <<1329, 1366, 1, 48>>, <<4256, 4293, 1, 7264>>, <<4295, 4295, 1, 7264>>,
      <<4301, 4301, 1, 7264>>, <<5024, 5103, 1, 38864>>, <<5104, 5109, 1, 8>>, <<7312, 7354, 1, -3008>>,
      <<7357, 7359, 1, -3008>>, <<7680, 7828, 2, 1>>, <<7838, 7838, 1, -7615>>, <<7840, 7934, 2, 1>>,
      <<7944, 7951, 1, -8>>, <<7960, 7965, 1, -8>>, <<7976, 7983, 1, -8>>, <<7992, 7999, 1, -8>>,
      <<8008, 8013, 1, -8>>, <<8025, 8031, 2, -8>>, <<8040, 8047, 1, -8>>, <<8072, 8079, 1, -8>>,
      <<8088, 8095, 1, -8>>, <<8104, 8111, 1, -8>>, <<8120, 8121, 1, -8>>, <<8122, 8123, 1, -74>>,
      <<8124, 8124, 1, -9>>, <<8136, 8139, 1, -86>>, <<8140, 8140, 1, -9>>, <<8152, 8153, 1, -8>>,
      <<8154, 8155, 1, -100>>, <<8168, 8169, 1, -8>>, <<8170, 8171, 1, -112>>, <<8172, 8172, 1, -7>>,
      <<8184, 8185, 1, -128>>, <<8186, 8187, 1, -126>>, <<8188, 8188, 1, -9>>, <<8486, 8486, 1, -7517>>,
      <<8490, 8490, 1, -8383>>, <<8491, 8491, 1, -8262>>, <<8498, 8498, 1, 28>>, <<8544, 8559, 1, 16>>,
      <<8579, 8579, 1, 1>>, <<9398, 9423, 1, 26>>, <<11264, 11311, 1, 48>>, <<11360, 11360, 1, 1>>,
      <<11362, 11362, 1, -10743>>, <<11363, 11363, 1, -3814>>, <<11364, 11364, 1, -10727>>, <<11367, 11371, 2, 1>>,
      <<11373, 11373, 1, -10780>>, <<11374, 11374, 1, -10749>>, <<11375, 11375, 1, -10783>>, <<11376, 11376, 1, -10782>>,
      <<11378, 11378, 1, 1>>, <<11381, 11381, 1, 1>>, <<11390, 11391, 1, -10815>>, <<11392, 11490, 2, 1>>,
      <<11499, 11501, 2, 1>>, <<11506, 11506, 1, 1>>, <<42560, 42604, 2, 1>>, <<42624, 42650, 2, 1>>,
      <<42786, 42798, 2, 1>>, <<42802, 42862, 2, 1>>, <<42873, 42875, 2, 1>>, <<42877, 42877, 1, -35332>>,
      <<42878, 42886, 2, 1>>, <<42891, 42891, 1, 1>>, <<42893, 42893, 1, -42280>>, <<42896, 42898, 2, 1>>,
      <<42902, 42920, 2, 1>>, <<42922, 42922, 1, -42308>>, <<42923, 42923, 1, -42319>>, <<42924, 42924, 1, -42315>>,
      <<42925, 42925, 1, -42305>>, <<42926, 42926, 1, -42308>>, <<42928, 42928, 1, -42258>>, <<42929, 42929, 1, -42282>>,
      <<42930, 42930, 1, -42261>>, <<42931, 42931, 1, 928>>, <<42932, 42946, 2, 1>>, <<42948, 42948, 1, -48>>,
      <<42949, 42949, 1, -42307>>, <<42950, 42950, 1, -35384>>, <<42951, 42953, 2, 1>>, <<42960, 42960, 1, 1>>,
      <<42966, 42968, 2, 1>>, <<42997, 42997, 1, 1>>, <<65313, 65338, 1, 32>>, <<66560, 66599, 1, 40>>,
      <<66736, 66771, 1, 40>>, <<66928, 66938, 1, 39>>, <<66940, 66954, 1, 39>>, <<66956, 66962, 1, 39>>,
      <<66964, 66965, 1, 39>>, <<68736, 68786, 1, 64>>, <<71840, 71871, 1, 32>>, <<93760, 93791, 1, 32>>,
      <<125184, 125217, 1, 34>> }

\* the characters str.lower() takes for cased where it decides on a final
\* sigma, as <<first, last>>
CasedRanges ==
    { <<65, 90>>, <<97, 122>>, <<170, 170>>, <<181, 181>>, <<186, 186>>, <<192, 214>>,
      <<216, 246>>, <<248, 442>>, <<444, 447>>, <<452, 659>>, <<661, 687>>, <<880, 883>>,
      <<886, 887>>, <<891, 893>>, <<895, 895>>, <<902, 902>>, <<904, 906>>, <<908, 908>>,
      <<910, 929>>, <<931, 1013>>, <<1015, 1153>>, <<1162, 1327>>, <<1329, 1366>>, <<1376, 1416>>,
      <<4256, 4293>>, <<4295, 4295>>, <<4301, 4301>>, <<4304, 4346>>, <<4349, 4351>>, <<5024, 5109>>,
      <<5112, 5117>>, <<7296, 7304>>, <<7312, 7354>>, <<7357, 7359>>, <<7424, 7467>>, <<7531, 7543>>,
      <<7545, 7578>>, <<7680, 7957>>, <<7960, 7965>>, <<7968, 8005>>, <<8008, 8013>>, <<8016, 8023>>,
      <<8025, 8025>>, <<8027, 8027>>, <<8029, 8029>>, <<8031, 8061>>, <<8064, 8116>>, <<8118, 8124>>,
      <<8126, 8126>>, <<8130, 8132>>, <<8134, 8140>>, <<8144, 8147>>, <<8150, 8155>>, <<8160, 8172>>,
      <<8178, 8180>>, <<8182, 8188>>, <<8450, 8450>>, <<8455, 8455>>, <<8458, 8467>>, <<8469, 8469>>,
      <<8473, 8477>>, <<8484, 8484>>, <<8486, 8486>>, <<8488, 8488>>, <<8490, 8493>>, <<8495, 8500>>,
      <<8505, 8505>>, <<8508, 8511>>, <<8517, 8521>>, <<8526, 8526>>, <<8544, 8575>>, <<8579, 8580>>,
      <<9398, 9449>>, <<11264, 11387>>, <<11390, 11492>>, <<11499, 11502>>, <<11506, 11507>>, <<11520, 11557>>,
      <<11559, 11559>>, <<11565, 11565>>, <<42560, 42605>>, <<42624, 42651>>, <<42786, 42863>>, <<42865, 42887>>,
      <<42891, 42894>>, <<42896, 42954>>, <<42960, 42961>>, <<42963, 42963>>, <<42965, 42969>>, <<42997, 42998>>,
      <<43002, 43002>>, <<43824, 43866>>, <<43872, 43880>>, <<43888, 43967>>, <<64256, 64262>>, <<64275, 64279>>,
      <<65313, 65338>>, <<65345, 65370>>, <<66560, 66639>>, <<66736, 66771>>, <<66776, 66811>>, <<66928, 66938>>,
      <<66940, 66954>>, <<66956, 66962>>, <<66964, 66965>>, <<66967, 66977>>, <<66979, 66993>>, <<66995, 67001>>,
      <<67003, 67004>>, <<68736, 68786>>, <<68800, 68850>>, <<71840, 71903>>, <<93760, 93823>>, <<119808, 119892>>,
      <<119894, 119964>>, <<119966, 119967>>, <<119970, 119970>>, <<119973, 119974>>, <<119977, 119980>>, <<119982, 119993>>,
      <<119995, 119995>>, <<119997, 120003>>, <<120005, 120069>>, <<120071, 120074>>, <<120077, 120084>>, <<120086, 120092>>,
      <<120094, 120121>>, <<120123, 120126>>, <<120128, 120132>>, <<120134, 120134>>, <<120138, 120144>>, <<120146, 120485>>,
      <<120488, 120512>>, <<120514, 120538>>, <<120540, 120570>>, <<120572, 120596>>, <<120598, 120628>>, <<120630, 120654>>,
      <<120656, 120686>>, <<120688, 120712>>, <<120714, 120744>>, <<120746, 120770>>, <<120772, 120779>>, <<122624, 122633>>,
      <<122635, 122654>>, <<125184, 125251>>, <<127280, 127305>>, <<127312, 127337>>, <<127344, 127369>> }

\* the characters str.lower() skips where it decides on a final sigma
\* (case-ignorable), as <<first, last>>
CaseIgnorableRanges ==
    { <<39, 39>>, <<46, 46>>, <<58, 58>>, <<94, 94>>, <<96, 96>>, <<168, 168>>,
      <<173, 173>>, <<175, 175>>, <<180, 180>>, <<183, 184>>, <<688, 879>>, <<884, 885>>,
      <<890, 890>>, <<900, 901>>, <<903, 903>>, <<1155, 1161>>, <<1369, 1369>>, <<1375, 1375>>,
      <<1425, 1469>>, <<1471, 1471>>, <<1473, 1474>>, <<1476, 1477>>, <<1479, 1479>>, <<1524, 1524>>,
      <<1536, 1541>>, <<1552, 1562>>, <<1564, 1564>>, <<1600, 1600>>, <<1611, 1631>>, <<1648, 1648>>,
      <<1750, 1757>>, <<1759, 1768>>, <<1770, 1773>>, <<1807, 1807>>, <<1809, 1809>>, <<1840, 1866>>,
      <<1958, 1968>>, <<2027, 2037>>, <<2042, 2042>>, <<2045, 2045>>, <<2070, 2093>>, <<2137, 2139>>,
      <<2184, 2184>>, <<2192, 2193>>, <<2200, 2207>>, <<2249, 2306>>, <<2362, 2362>>, <<2364, 2364>>,
      <<2369, 2376>>, <<2381, 2381>>, <<2385, 2391>>, <<2402, 2403>>, <<2417, 2417>>, <<2433, 2433>>,
      <<2492, 2492>>, <<2497, 2500>>, <<2509, 2509>>, <<2530, 2531>>, <<2558, 2558>>, <<2561, 2562>>,
      <<2620, 2620>>, <<2625, 2626>>, <<2631, 2632>>, <<2635, 2637>>, <<2641, 2641>>, <<2672, 2673>>,
      <<2677, 2677>>, <<2689, 2690>>, <<2748, 2748>>, <<2753, 2757>>, <<2759, 2760>>, <<2765, 2765>>,
      <<2786, 2787>>, <<2810, 2815>>, <<2817, 2817>>, <<2876, 2876>>, <<2879, 2879>>, <<2881, 2884>>,
      <<2893, 2893>>, <<2901, 2902>>, <<2914, 2915>>, <<2946, 2946>>, <<3008, 3008>>, <<3021, 3021>>,
      <<3072, 3072>>, <<3076, 3076>>, <<3132, 3132>>, <<3134, 3136>>, <<3142, 3144>>, <<3146, 3149>>,
      <<3157, 3158>>, <<3170, 3171>>, <<3201, 3201>>, <<3260, 3260>>, <<3263, 3263>>, <<3270, 3270>>,
      <<3276, 3277>>, <<3298, 3299>>, <<3328, 3329>>, <<3387, 3388>>, <<3393, 3396>>, <<3405, 3405>>,
      <<3426, 3427>>, <<3457, 3457>>, <<3530, 3530>>, <<3538, 3540>>, <<3542, 3542>>, <<3633, 3633>>,
      <<3636, 3642>>, <<3654, 3662>>, <<3761, 3761>>, <<3764, 3772>>, <<3782, 3782>>, <<3784, 3789>>,
      <<3864, 3865>>, <<3893, 3893>>, <<3895, 3895>>, <<3897, 3897>>, <<3953, 3966>>, <<3968, 3972>>,
      <<3974, 3975>>, <<3981, 3991>>, <<3993, 4028>>, <<4038, 4038>>, <<4141, 4144>>, <<4146, 4151>>,
      <<4153, 4154>>, <<4157, 4158>>, <<4184, 4185>>, <<4190, 4192>>, <<4209, 4212>>, <<4226, 4226>>,
      <<4229, 4230>>, <<4237, 4237>>, <<4253, 4253>>, <<4348, 4348>>, <<4957, 4959>>, <<5906, 5908>>,
      <<5938, 5939>>, <<5970, 5971>>, <<6002, 6003>>, <<6068, 6069>>, <<6071, 6077>>, <<6086, 6086>>,
      <<6089, 6099>>, <<6103, 6103>>, <<6109, 6109>>, <<6155, 6159>>, <<6211, 6211>>, <<6277, 6278>>,
      <<6313, 6313>>, <<6432, 6434>>, <<6439, 6440>>, <<6450, 6450>>, <<6457, 6459>>, <<6679, 6680>>,
      <<6683, 6683>>, <<6742, 6742>>, <<6744, 6750>>, <<6752, 6752>>, <<6754, 6754>>, <<6757, 6764>>,
      <<6771, 6780>>, <<6783, 6783>>, <<6823, 6823>>, <<6832, 6862>>, <<6912, 6915>>, <<6964, 6964>>,
      <<6966, 6970>>, <<6972, 6972>>, <<6978, 6978>>, <<7019, 7027>>, <<7040, 7041>>, <<7074, 7077>>,
      <<7080, 7081>>, <<7083, 7085>>, <<7142, 7142>>, <<7144, 7145>>, <<7149, 7149>>, <<7151, 7153>>,
      <<7212, 7219>>, <<7222, 7223>>, <<7288, 7293>>, <<7376, 7378>>, <<7380, 7392>>, <<7394, 7400>>,
      <<7405, 7405>>, <<7412, 7412>>, <<7416, 7417>>, <<7468, 7530>>, <<7544, 7544>>, <<7579, 7679>>,
      <<8125, 8125>>, <<8127, 8129>>, <<8141, 8143>>, <<8157, 8159>>, <<8173, 8175>>, <<8189, 8190>>,
      <<8203, 8207>>, <<8216, 8217>>, <<8228, 8228>>, <<8231, 8231>>, <<8234, 8238>>, <<8288, 8292>>,
      <<8294, 8303>>, <<8305, 8305>>, <<8319, 8319>>, <<8336, 8348>>, <<8400, 8432>>, <<11388, 11389>>,
      <<11503, 11505>>, <<11631, 11631>>, <<11647, 11647>>, <<11744, 11775>>, <<11823, 11823>>, <<12293, 12293>>,
      <<12330, 12333>>, <<12337, 12341>>, <<12347, 12347>>, <<12441, 12446>>, <<12540, 12542>>, <<40981, 40981>>,
      <<42232, 42237>>, <<42508, 42508>>, <<42607, 42610>>, <<42612, 42621>>, <<42623, 42623>>, <<42652, 42655>>,
      <<42736, 42737>>, <<42752, 42785>>, <<42864, 42864>>, <<42888, 42890>>, <<42994, 42996>>, <<43000, 43001>>,
      <<43010, 43010>>, <<43014, 43014>>, <<43019, 43019>>, <<43045, 43046>>, <<43052, 43052>>, <<43204, 43205>>,
      <<43232, 43249>>, <<43263, 43263>>, <<43302, 43309>>, <<43335, 43345>>, <<43392, 43394>>, <<43443, 43443>>,
      <<43446, 43449>>, <<43452, 43453>>, <<43471, 43471>>, <<43493, 43494>>, <<43561, 43566>>, <<43569, 43570>>,
      <<43573, 43574>>, <<43587, 43587>>, <<43596, 43596>>, <<43632, 43632>>, <<43644, 43644>>, <<43696, 43696>>,
      <<43698, 43700>>, <<43703, 43704>>, <<43710, 43711>>, <<43713, 43713>>, <<43741, 43741>>, <<43756, 43757>>,
      <<43763, 43764>>, <<43766, 43766>>, <<43867, 43871>>, <<43881, 43883>>, <<44005, 44005>>, <<44008, 44008>>,
      <<44013, 44013>>, <<64286, 64286>>, <<64434, 64450>>, <<65024, 65039>>, <<65043, 65043>>, <<65056, 65071>>,
      <<65106, 65106>>, <<65109, 65109>>, <<65279, 65279>>, <<65287, 65287>>, <<65294, 65294>>, <<65306, 65306>>,
      <<65342, 65342>>, <<65344, 65344>>, <<65392, 65392>>, <<65438, 65439>>, <<65507, 65507>>, <<65529, 65531>>,
      <<66045, 66045>>, <<66272, 66272>>, <<66422, 66426>>, <<67456, 67461>>, <<67463, 67504>>, <<67506, 67514>>,
      <<68097, 68099>>, <<68101, 68102>>, <<68108, 68111>>, <<68152, 68154>>, <<68159, 68159>>, <<68325, 68326>>,
      <<68900, 68903>>, <<69291, 69292>>, <<69446, 69456>>, <<69506, 69509>>, <<69633, 69633>>, <<69688, 69702>>,
      <<69744, 69744>>, <<69747, 69748>>, <<69759, 69761>>, <<69811, 69814>>, <<69817, 69818>>, <<69821, 69821>>,
      <<69826, 69826>>, <<69837, 69837>>, <<69888, 69890>>, <<69927, 69931>>, <<69933, 69940>>, <<70003, 70003>>,
      <<70016, 70017>>, <<70070, 70078>>, <<70089, 70092>>, <<70095, 70095>>, <<70191, 70193>>, <<70196, 70196>>,
      <<70198, 70199>>, <<70206, 70206>>, <<70367, 70367>>, <<70371, 70378>>, <<70400, 70401>>, <<70459, 70460>>,
      <<70464, 70464>>, <<70502, 70508>>, <<70512, 70516>>, <<70712, 70719>>, <<70722, 70724>>, <<70726, 70726>>,
      <<70750, 70750>>, <<70835, 70840>>, <<70842, 70842>>, <<70847, 70848>>, <<70850, 70851>>, <<71090, 71093>>,
      <<71100, 71101>>, <<71103, 71104>>, <<71132, 71133>>, <<71219, 71226>>, <<71229, 71229>>, <<71231, 71232>>,
      <<71339, 71339>>, <<71341, 71341>>, <<71344, 71349>>, <<71351, 71351>>, <<71453, 71455>>, <<71458, 71461>>,
      <<71463, 71467>>, <<71727, 71735>>, <<71737, 71738>>, <<71995, 71996>>, <<71998, 71998>>, <<72003, 72003>>,
      <<72148, 72151>>, <<72154, 72155>>, <<72160, 72160>>, <<72193, 72202>>, <<72243, 72248>>, <<72251, 72254>>,
      <<72263, 72263>>, <<72273, 72278>>, <<72281, 72283>>, <<72330, 72342>>, <<72344, 72345>>, <<72752, 72758>>,
      <<72760, 72765>>, <<72767, 72767>>, <<72850, 72871>>, <<72874, 72880>>, <<72882, 72883>>, <<72885, 72886>>,
      <<73009, 73014>>, <<73018, 73018>>, <<73020, 73021>>, <<73023, 73029>>, <<73031, 73031>>, <<73104, 73105>>,
      <<73109, 73109>>, <<73111, 73111>>, <<73459, 73460>>, <<78896, 78904>>, <<92912, 92916>>, <<92976, 92982>>,
      <<92992, 92995>>, <<94031, 94031>>, <<94095, 94111>>, <<94176, 94177>>, <<94179, 94180>>, <<110576, 110579>>,
      <<110581, 110587>>, <<110589, 110590>>, <<113821, 113822>>, <<113824, 113827>>, <<118528, 118573>>, <<118576, 118598>>,
      <<119143, 119145>>, <<119155, 119170>>, <<119173, 119179>>, <<119210, 119213>>, <<119362, 119364>>, <<121344, 121398>>,
      <<121403, 121452>>, <<121461, 121461>>, <<121476, 121476>>, <<121499, 121503>>, <<121505, 121519>>, <<122880, 122886>>,
      <<122888, 122904>>, <<122907, 122913>>, <<122915, 122916>>, <<122918, 122922>>, <<123184, 123197>>, <<123566, 123566>>,
      <<123628, 123631>>, <<125136, 125142>>, <<125252, 125259>>, <<127995, 127999>>, <<917505, 917505>>, <<917536, 917631>>,
      <<917760, 917999>> }

IsCased(c) == \E r \in CasedRanges : r[1] <= c /\ c <= r[2]

IsCaseIgnorable(c) == \E r \in CaseIgnorableRanges : r[1] <= c /\ c <= r[2]

\* whether the capital sigma at place i of a ends a word: the nearest
\* character before it that is not skipped is cased, the nearest after it is not
IsFinalSigma(a, i) ==
    LET before == {j \in 1..(i - 1) : ~IsCaseIgnorable(a[j])}
        after == {j \in (i + 1)..Len(a) : ~IsCaseIgnorable(a[j])}
    IN  /\ before # {}
        /\ IsCased(a[CHOOSE j \in before : \A k \in before : k <= j])
        /\ after # {} => ~IsCased(a[CHOOSE j \in after : \A k \in after : j <= k])

\* the lower case of the character at place i of a; 931 is the capital sigma,
\* 304 the capital I with dot above
LowerAt(a, i) ==
    IF a[i] = 931 THEN (IF IsFinalSigma(a, i) THEN <<962>> ELSE <<963>>)
    ELSE IF a[i] = 304 THEN <<105, 775>>
    ELSE IF \E r \in LowerCaseOffsets : r[1] <= a[i] /\ a[i] <= r[2] /\ (a[i] - r[1]) % r[3] = 0
    THEN LET r == CHOOSE r \in LowerCaseOffsets :
                    r[1] <= a[i] /\ a[i] <= r[2] /\ (a[i] - r[1]) % r[3] = 0
         IN  <<a[i] + r[4]>>
    ELSE <<a[i]>>

RECURSIVE LowerFrom(_, _)
LowerFrom(a, i) == IF i > Len(a) THEN <<>> ELSE LowerAt(a, i) \o LowerFrom(a, i + 1)

\* str.lower()
Lower(a) == LowerFrom(a, 1)

-----------------------------------------------------------------------------
(* Dates: <<year, month, day>> *)

IsLeap(y) == (y % 4 = 0 /\ y % 100 # 0) \/ y % 400 = 0

DaysInMonth(y, m) ==
    IF m = 2 THEN (IF IsLeap(y) THEN 29 ELSE 28)
    ELSE IF m \in {4, 6, 9, 11} THEN 30 ELSE 31

\* the dates datetime.date accepts
IsCalendarDate(y, m, d) ==
    /\ y >= 1 /\ y <= 9999
    /\ m >= 1 /\ m <= 12
    /\ d >= 1 /\ d <= DaysInMonth(y, m)

\* ordering of datetime.date values
DateKey(dt) == dt[1] * 10000 + dt[2] * 100 + dt[3]

\* re.match(r"^\d{4}-\d{2}-\d{2}$", line); 45 is the hyphen
MatchesDatePattern(line) ==
    /\ Len(line) = 10
    /\ \A i \in {1, 2, 3, 4, 6, 7, 9, 10} : line[i] \in Digit
    /\ line[5] = 45
    /\ line[8] = 45

Num2(a, b) == DigitVal(a) * 10 + DigitVal(b)

\* the numbers the three fields of a line that matches the pattern spell
FieldValues(line) ==
    << Num2(line[1], line[2]) * 100 + Num2(line[3], line[4]),
       Num2(line[6], line[7]), Num2(line[9], line[10]) >>

\* strptime's pattern of %m on two digits: 1[0-2]|0[1-9], ASCII only
MatchesMonthField(a, b) ==
    \/ a = 49 /\ b \in 48..50
    \/ a = 48 /\ b \in 49..57

\* strptime's pattern of %d on two digits: 3[01]|[12]\d|0[1-9]
MatchesDayField(a, b) ==
    \/ a = 51 /\ b \in 48..49
    \/ a \in 49..50 /\ b \in Digit
    \/ a = 48 /\ b \in 49..57

\* datetime.strptime(line, "%Y-%m-%d").date() on a line that matches the
\* pattern of line 45: the date, or ValueError
strptime(line) ==
    LET v == FieldValues(line)
    IN  IF /\ MatchesMonthField(line[6], line[7])
           /\ MatchesDayField(line[9], line[10])
           /\ IsCalendarDate(v[1], v[2], v[3])
        THEN [ok |-> TRUE, date |-> v]
        ELSE [ok |-> FALSE, date |-> <<0, 0, 0>>]

\* list.sort() on dates: insertion of x into a sorted list
RECURSIVE InsertSorted(_, _)
InsertSorted(x, s) ==
    IF s = <<>> THEN <<x>>
    ELSE IF DateKey(x) < DateKey(Head(s)) THEN <<x>> \o s
    ELSE <<Head(s)>> \o InsertSorted(x, Tail(s))

RECURSIVE SortDates(_)
SortDates(s) ==
    IF s = <<>> THEN <<>>
    ELSE InsertSorted(s[Len(s)], SortDates(SubSeq(s, 1, Len(s) - 1)))

-----------------------------------------------------------------------------
(* read_dates_from_file *)

\* the value of confirm or retry when its prompt was not answered
NoAnswer == << -2 >>

\* the answer of a closed standard input: input() raises EOFError
EndOfInput == << -1 >>

\* the text 'y'
Yes == << 121 >>

\* return values: a list of dates, or None when the function falls off its end
ListOf(dates) == [kind |-> "list", dates |-> dates]

None == [kind |-> "None", dates |-> <<>>]

\* truth value of a returned value (line 195)
Truthy(r) == r.kind = "list" /\ r.dates # <<>>

\* line 41; 35 is '#'
IsIgnoredLine(line) == line = <<>> \/ Head(line) = 35

\* what the loop body does once a line is rejected (lines 48, 56): continue
AfterRejected(lines, line_num) == line_num + 1

\* the loop of lines 36-56, from line number line_num on
RECURSIVE ScanLines(_, _, _, _)
ScanLines(lines, line_num, parsed_dates, invalid) ==
    IF line_num > Len(lines) THEN [parsed_dates |-> parsed_dates, invalid_lines |-> invalid]
    ELSE LET line == Strip(lines[line_num])
         IN  IF IsIgnoredLine(line)
             THEN ScanLines(lines, line_num + 1, parsed_dates, invalid)
             ELSE IF ~MatchesDatePattern(line)
             THEN ScanLines(lines, AfterRejected(lines, line_num), parsed_dates,
                     Append(invalid, [line_num |-> line_num, line |-> line,
                                      reason |-> "format error"]))
             ELSE IF strptime(line).ok
             THEN ScanLines(lines, line_num + 1,
                     Append(parsed_dates, strptime(line).date), invalid)
             ELSE ScanLines(lines, AfterRejected(lines, line_num), parsed_dates,
                     Append(invalid, [line_num |-> line_num, line |-> line,
                                      reason |-> "invalid date"]))

\* the whole function, given the answer the user types at the one prompt a
\* call reaches (the confirmation of line 77 or the retry of line 85)
read_dates_from_file(file, answer) ==
    IF file.kind = "missing"
    THEN \* except FileNotFoundError: prints, and the function ends without return
         [ret |-> None, invalid_lines |-> <<>>, scans |-> 0,
          confirm |-> NoAnswer, retry |-> NoAnswer, printed |-> {"file not found"}]
    ELSE IF file.kind = "unreadable"
    THEN \* open raises something else; except Exception: prints and returns []
         [ret |-> ListOf(<<>>), invalid_lines |-> <<>>, scans |-> 0,
          confirm |-> NoAnswer, retry |-> NoAnswer, printed |-> {"read error"}]
    ELSE IF file.kind = "broken"
    THEN \* the read raises after file.lines were scanned (the loop is inside
         \* the try): except Exception prints and returns []
         LET s == ScanLines(file.lines, 1, <<>>, <<>>)
         IN  [ret |-> ListOf(<<>>), invalid_lines |-> s.invalid_lines, scans |-> 1,
              confirm |-> NoAnswer, retry |-> NoAnswer,
              printed |-> (IF s.invalid_lines # <<>> THEN {"line skipped"} ELSE {})
                            \cup {"read error"}]
    ELSE LET s == ScanLines(file.lines, 1, <<>>, <<>>)
             warned == IF s.invalid_lines # <<>> THEN {"line skipped"} ELSE {}
             shown == IF s.parsed_dates = <<>> THEN "no valid dates" ELSE "dates listed"
         IN  IF answer = EndOfInput
             THEN \* input() raises inside the try: except Exception returns []
                  [ret |-> ListOf(<<>>), invalid_lines |-> s.invalid_lines, scans |-> 1,
                   confirm |-> NoAnswer, retry |-> NoAnswer,
                   printed |-> warned \cup {shown, "read error"}]
             ELSE IF s.parsed_dates = <<>>
             THEN [ret |-> IF Lower(answer) # Yes THEN ListOf(<<>>) ELSE None,
                   invalid_lines |-> s.invalid_lines, scans |-> 1,
                   confirm |-> NoAnswer, retry |-> Lower(answer),
                   printed |-> warned \cup {shown}]
             ELSE IF Lower(answer) = Yes
             THEN [ret |-> ListOf(SortDates(s.parsed_dates)),
                   invalid_lines |-> s.invalid_lines, scans |-> 1,
                   confirm |-> Lower(answer), retry |-> NoAnswer,
                   printed |-> warned \cup {shown}]
             ELSE [ret |-> ListOf(<<>>),
                   invalid_lines |-> s.invalid_lines, scans |-> 1,
                   confirm |-> Lower(answer), retry |-> NoAnswer,
                   printed |-> warned \cup {shown, "cancelled"}]

-----
(* The calendar file and the ics library's Calendar                        *)
(*                                                                         *)
(* A file's content is a sequence of items.  A VEVENT item carries its UID, *)
(* its SUMMARY, its DTSTART date as eight digits of text and a time of day *)
(* of text ("" for an all-day VALUE=DATE start).  An event in memory is    *)
(* [uid, name, date, time] with the date as <<year, month, day>>.          *)

Item(type) == [type |-> type, uid |-> 0, summary |-> "", dtstart |-> <<>>, time |-> ""]

BeginCalendar == Item("BEGIN:VCALENDAR")

EndCalendar == Item("END:VCALENDAR")

BlankLine == Item("BLANK")

JunkLine == Item("JUNK")

\* bytes that are not UTF-8, such as a character cut in two
UndecodableBytes == Item("UNDECODABLE")

\* whether f.read() (line 101) decodes the content
Decodable(content) == \A i \in 1..Len(content) : content[i] # UndecodableBytes

VEvent(uid, summary, dtstart, time) ==
    [type |-> "VEVENT", uid |-> uid, summary |-> summary, dtstart |-> dtstart, time |-> time]

RECURSIVE LStripItems(_)
LStripItems(c) ==
    IF c = <<>> THEN c
    ELSE IF Head(c) = BlankLine THEN LStripItems(Tail(c)) ELSE c

RECURSIVE RStripItems(_)
RStripItems(c) ==
    IF c = <<>> THEN c
    ELSE IF c[Len(c)] = BlankLine THEN RStripItems(SubSeq(c, 1, Len(c) - 1)) ELSE c

\* content.strip()
StripContent(c) == RStripItems(LStripItems(c))

\* the check of line 103
HasMarkers(content) ==
    LET c == StripContent(content)
    IN  /\ c # <<>>
        /\ Head(c) = BeginCalendar
        /\ c[Len(c)] = EndCalendar

\* a DTSTART date of eight digits read as a date
ParseYmd(t) ==
    <<Num2(t[1], t[2]) * 100 + Num2(t[3], t[4]), Num2(t[5], t[6]), Num2(t[7], t[8])>>

\* a date written as the eight digits of a DTSTART;VALUE=DATE
FormatYmd(dt) ==
    << DigitChar(dt[1] \div 1000), DigitChar((dt[1] \div 100) % 10),
       DigitChar((dt[1] \div 10) % 10), DigitChar(dt[1] % 10),
       DigitChar(dt[2] \div 10), DigitChar(dt[2] % 10),
       DigitChar(dt[3] \div 10), DigitChar(dt[3] % 10) >>

ItemToEvent(it) ==
    [uid |-> it.uid, name |-> it.summary, date |-> ParseYmd(it.dtstart), time |-> it.time]

EventToItem(e) == VEvent(e.uid, e.name, FormatYmd(e.date), e.time)

\* Calendar(content) on content that passed the marker check: the events, or
\* an exception when something other than events stands between the markers
ParseCalendar(content) ==
    LET c == StripContent(content)
        inner == SubSeq(c, 2, Len(c) - 1)
    IN  IF Len(c) >= 2 /\ \A i \in 1..Len(inner) : inner[i].type = "VEVENT"
        THEN [raised |-> FALSE, events |-> {ItemToEvent(inner[i]) : i \in 1..Len(inner)}]
        ELSE [raised |-> TRUE, events |-> {}]

MinUid(events) == CHOOSE u \in {e.uid : e \in events} : \A e \in events : u <= e.uid

RECURSIVE EventItems(_)
EventItems(events) ==
    IF events = {} THEN <<>>
    ELSE LET e == CHOOSE x \in events : x.uid = MinUid(events)
         IN  <<EventToItem(e)>> \o EventItems(events \ {e})

\* str(calendar)
Serialize(events) == <<BeginCalendar>> \o EventItems(events) \o <<EndCalendar>>

\* the events a file's content holds, whether or not the loader accepts it
EventsIn(file) ==
    IF file.kind \notin {"file", "unreadable"} THEN {}
    ELSE {ItemToEvent(file.content[i]) :
            i \in {j \in 1..Len(file.content) : file.content[j].type = "VEVENT"}}

-----------------------------------------------------------------------------
(* load_or_create_calendar *)

\* event.begin reduced to a date (lines 109-111)
EventDate(event) == event.date

\* a loader that records the date of every event, whatever its title
ExistingDatesAnyTitle(events) == {EventDate(e) : e \in events}

\* the loop of lines 107-115
ExistingDates(events) == {EventDate(e) : e \in {x \in events : x.name = EVENT_SUMMARY}}

\* a loader without the handler of lines 125-128: the exception propagates
OnParseErrorPropagates == [calendar |-> {}, existing |-> {}, raised |-> TRUE, printed |-> {}]

\* what the handler of lines 125-128 does with an exception of open, of
\* f.read() or of Calendar(content)
OnParseError == [calendar |-> {}, existing |-> {}, raised |-> FALSE, printed |-> {"load error"}]

load_or_create_calendar(file) ==
    IF file.kind = "missing"
    THEN [calendar |-> {}, existing |-> {}, raised |-> FALSE, printed |-> {"ics missing"}]
    ELSE IF file.kind \in {"unreadable", "directory"} \/ ~Decodable(file.content)
    THEN OnParseError
    ELSE IF HasMarkers(file.content)
    THEN LET c == ParseCalendar(file.content)
         IN  IF c.raised THEN OnParseError
             ELSE [calendar |-> c.events, existing |-> ExistingDates(c.events),
                   raised |-> FALSE, printed |-> {"loaded"}]
    ELSE [calendar |-> {}, existing |-> {}, raised |-> FALSE, printed |-> {"ics invalid"}]

-----
(* add_adjustment_events *)

\* lines 141-144: the all-day event of a date; Event() draws a UID no other
\* event has, in memory or in a file
NewEvent(uid, adj_date) ==
    [uid |-> uid, name |-> EVENT_SUMMARY, date |-> adj_date, time |-> ""]

\* a merger that forgets line 147
CoveredNotUpdated(existing, adj_date) == existing

\* line 147: the covered set after a date was added
Covered(existing, adj_date) == existing \cup {adj_date}

\* the loop of lines 136-149 over the sorted dates, from index i on
RECURSIVE AddLoop(_, _, _, _, _, _)
AddLoop(events, dates, i, existing, count, uid) ==
    IF i > Len(dates)
    THEN [calendar |-> events, existing |-> existing, added_count |-> count, next_uid |-> uid]
    ELSE IF dates[i] \in existing
    THEN AddLoop(events, dates, i + 1, existing, count, uid)
    ELSE AddLoop(events \cup {NewEvent(uid, dates[i])}, dates, i + 1,
                 Covered(existing, dates[i]), count + 1, uid + 1)

\* uid: the first UID Event() draws in this call
add_adjustment_events(events, dates, existing, uid) ==
    AddLoop(events, SortDates(dates), 1, existing, 0, uid)

-----------------------------------------------------------------------------
(* save_calendar *)

SaveOutcomes == {"ok", "open fails", "write fails"}

\* how a failed write ends: after a whole item, inside an item, or inside a
\* character of an item (the title is not ASCII)
Tears == {"none", "item", "character"}

\* what a failed write leaves of the text: its first k items and the torn
\* piece of the next
PartialText(text, k, torn) ==
    SubSeq(text, 1, k)
      \o (IF torn = "item" THEN <<JunkLine>>
          ELSE IF torn = "character" THEN <<UndecodableBytes>> ELSE <<>>)

\* the file after save_calendar: open(filename, 'w') truncates the file, so a
\* failure of the write leaves a proper prefix of the text. Opening for
\* writing creates a missing file and changes no permission: a file that
\* could not be read still cannot be read
save_calendar(file, events, outcome, k, torn) ==
    LET kind == IF file.kind = "missing" THEN "file" ELSE file.kind
    IN  IF outcome = "open fails" THEN file
        ELSE IF outcome = "write fails"
        THEN [kind |-> kind, content |-> PartialText(Serialize(events), k, torn)]
        ELSE [kind |-> kind, content |-> Serialize(events)]

\* a main program that saves whatever the count
ShouldSaveAlways(count) == count >= 0

\* the condition of line 199
ShouldSave(count) == count > 0


-----------------------------------------------------------------------------
(* Inputs *)

\* lines of adjusted_dates.txt, in this order: '2025-01-26'; TAB '2025-02-08'
\* SPACE; '2025-02-30'; '2025/01/26'; '# test'; '2025-01-26' with the month
\* in ARABIC-INDIC digits; the empty line
SampleLines ==
    { <<50, 48, 50, 53, 45, 48, 49, 45, 50, 54>>,
      <<9, 50, 48, 50, 53, 45, 48, 50, 45, 48, 56, 32>>,
      <<50, 48, 50, 53, 45, 48, 50, 45, 51, 48>>,
      <<50, 48, 50, 53, 47, 48, 49, 47, 50, 54>>,
      <<35, 32, 116, 101, 115, 116>>,
      <<50, 48, 50, 53, 45, 1632, 1633, 45, 50, 54>>,
      <<>> }

\* the date files: absent, not openable, readable to their end, and files of
\* up to MaxLines lines whose read fails at a line (the lines before it were
\* scanned)
InputFiles ==
    { [kind |-> "missing", lines |-> <<>>], [kind |-> "unreadable", lines |-> <<>>] }
    \cup { [kind |-> "file", lines |-> l] :
             l \in UNION { [1..n -> SampleLines] : n \in 0..MaxLines } }
    \cup { [kind |-> "broken", lines |-> l] :
             l \in UNION { [1..n -> SampleLines] : n \in 0..(MaxLines - 1) } }

SampleEvents ==
    { [uid |-> 1, name |-> EVENT_SUMMARY, date |-> <<2025, 1, 26>>, time |-> ""],
      [uid |-> 2, name |-> EVENT_SUMMARY, date |-> <<2025, 2, 8>>, time |-> "T090000"],
      [uid |-> 3, name |-> OtherSummary, date |-> <<2024, 2, 29>>, time |-> ""] }

\* the shapes of an existing output file holding the events evs
FileShapes(evs) ==
    { Serialize(evs),
      <<BlankLine>> \o Serialize(evs) \o <<BlankLine>>,
      Serialize(evs) \o <<JunkLine>>,
      <<BeginCalendar>> \o EventItems(evs) \o <<JunkLine, EndCalendar>>,
      Serialize(evs) \o <<UndecodableBytes>>,
      EventItems(evs) }

\* kind "unreadable": a file the user may write and not read, open(filename,
\* 'r') raises PermissionError; kind "directory": the path is a directory,
\* every open raises
OutputFiles ==
    { [kind |-> "missing", content |-> <<>>], [kind |-> "directory", content |-> <<>>] }
    \cup { [kind |-> "unreadable", content |-> Serialize(evs)] : evs \in {{}, SampleEvents} }
    \cup { [kind |-> "file", content |-> c] :
             c \in UNION { FileShapes(evs) :
                             evs \in { x \in SUBSET SampleEvents : Cardinality(x) <= MaxEvents } } }

\* what the user types: 'y', 'Y', 'n', or nothing on a closed input
Answers == {Yes, <<89>>, <<110>>, EndOfInput}

-----------------------------------------------------------------------------
(* The main program (lines 182-207), run twice on the same input file *)

NoSave == [outcome |-> "none", before |-> [kind |-> "missing", content |-> <<>>]]

NoFirst == [confirmed |-> FALSE, save |-> "none", after |-> [kind |-> "missing", content |-> <<>>]]

NoEntry == [calendar |-> {}, existing |-> {}]

\* Event() draws UIDs that no event of an existing file carries
FirstNewUid == 1 + Cardinality(SampleEvents)

Init ==
    /\ txtFile \in InputFiles
    /\ icsFile \in OutputFiles
    /\ pc = "start"
    /\ run = "first"
    /\ adjustment_dates = None
    /\ invalid_lines = <<>>
    /\ scans = 0
    /\ confirm = NoAnswer
    /\ retry = NoAnswer
    /\ calendar = {}
    /\ existing_dates = {}
    /\ added_count = 0
    /\ next_uid = FirstNewUid
    /\ printed = {}
    /\ raised = FALSE
    /\ entry = NoEntry
    /\ save = NoSave
    /\ runStart = icsFile
    /\ first = NoFirst

\* line 192
Main_Read ==
    /\ pc = "start"
    /\ \E answer \in Answers :
         LET res == read_dates_from_file(txtFile, answer)
         IN  /\ adjustment_dates' = res.ret
             /\ invalid_lines' = res.invalid_lines
             /\ scans' = res.scans
             /\ confirm' = res.confirm
             /\ retry' = res.retry
             /\ printed' = printed \cup res.printed
    /\ pc' = "read"
    /\ UNCHANGED <<txtFile, icsFile, run, calendar, existing_dates, added_count, next_uid,
                   raised, entry, save, runStart, first>>

\* lines 195, 206-207
Main_Exit ==
    /\ pc = "read"
    /\ ~Truthy(adjustment_dates)
    /\ printed' = printed \cup {"exit message"}
    /\ pc' = "done"
    /\ UNCHANGED <<txtFile, icsFile, run, adjustment_dates, invalid_lines, scans,
                   confirm, retry, calendar, existing_dates, added_count, next_uid,
                   raised, entry, save, runStart, first>>

\* lines 195-196
Main_Load ==
    /\ pc = "read"
    /\ Truthy(adjustment_dates)
    /\ LET res == load_or_create_calendar(icsFile)
       IN  /\ calendar' = res.calendar
           /\ existing_dates' = res.existing
           /\ raised' = res.raised
           /\ printed' = printed \cup res.printed
           /\ entry' = [calendar |-> res.calendar, existing |-> res.existing]
    /\ pc' = "loaded"
    /\ UNCHANGED <<txtFile, icsFile, run, adjustment_dates, invalid_lines, scans,
                   confirm, retry, added_count, next_uid, save, runStart, first>>

\* line 197
Main_Add ==
    /\ pc = "loaded"
    /\ ~raised
    /\ LET res == add_adjustment_events(calendar, adjustment_dates.dates,
                                        existing_dates, next_uid)
       IN  /\ next_uid' = res.next_uid
           /\ calendar' = res.calendar
           /\ existing_dates' = res.existing
           /\ added_count' = res.added_count
           /\ printed' = IF res.added_count > 0 THEN printed \cup {"event added"} ELSE printed
    /\ pc' = "merged"
    /\ UNCHANGED <<txtFile, icsFile, run, adjustment_dates, invalid_lines, scans,
                   confirm, retry, raised, entry, save, runStart, first>>

\* lines 199-201
Main_Save ==
    /\ pc = "merged"
    /\ ShouldSave(added_count)
    /\ \E outcome \in SaveOutcomes, k \in 0..(Len(Serialize(calendar)) - 1), torn \in Tears :
         /\ outcome # "write fails" => (k = 0 /\ torn = "none")
         /\ icsFile.kind = "directory" => outcome = "open fails"
         /\ torn = "character" => Serialize(calendar)[k + 1].summary = EVENT_SUMMARY
         /\ icsFile' = save_calendar(icsFile, calendar, outcome, k, torn)
         /\ save' = [outcome |-> outcome, before |-> icsFile]
         /\ printed' = printed \cup {IF outcome = "ok" THEN "saved" ELSE "save error", "added count"}
    /\ pc' = "report"
    /\ UNCHANGED <<txtFile, run, adjustment_dates, invalid_lines, scans, confirm, retry,
                   calendar, existing_dates, added_count, next_uid, raised, entry, runStart, first>>

\* lines 202-203
Main_NothingAdded ==
    /\ pc = "merged"
    /\ ~ShouldSave(added_count)
    /\ printed' = printed \cup {"nothing added"}
    /\ pc' = "report"
    /\ UNCHANGED <<txtFile, icsFile, run, adjustment_dates, invalid_lines, scans,
                   confirm, retry, calendar, existing_dates, added_count, next_uid,
                   raised, entry, save, runStart, first>>

\* line 205
Main_Usage ==
    /\ pc = "report"
    /\ printed' = printed \cup {"usage"}
    /\ pc' = "done"
    /\ UNCHANGED <<txtFile, icsFile, run, adjustment_dates, invalid_lines, scans,
                   confirm, retry, calendar, existing_dates, added_count, next_uid,
                   raised, entry, save, runStart, first>>

\* the script is started again on the same input file and the output file
\* the first run left
Rerun ==
    /\ pc = "done"
    /\ run = "first"
    /\ run' = "second"
    /\ first' = [confirmed |-> Truthy(adjustment_dates), save |-> save.outcome, after |-> icsFile]
    /\ runStart' = icsFile
    /\ pc' = "start"
    /\ adjustment_dates' = None
    /\ invalid_lines' = <<>>
    /\ scans' = 0
    /\ confirm' = NoAnswer
    /\ retry' = NoAnswer
    /\ calendar' = {}
    /\ existing_dates' = {}
    /\ added_count' = 0
    /\ printed' = {}
    /\ entry' = NoEntry
    /\ save' = NoSave
    /\ UNCHANGED <<txtFile, icsFile, raised, next_uid>>

Next ==
    \/ Main_Read
    \/ Main_Exit
    \/ Main_Load
    \/ Main_Add
    \/ Main_Save
    \/ Main_NothingAdded
    \/ Main_Usage
    \/ Rerun

Spec == Init /\ [][Next]_vars


-----------------------------------------------------------------------------
(* Properties *)

Confirmed == Truthy(adjustment_dates)

AfterMerge == pc \in {"merged", "report", "done"}

\* the dates of a list, as a set
DatesOf(dates) == {dates[i] : i \in 1..Len(dates)}

\* number of places of a list that hold x
Occurrences(dates, x) == Cardinality({i \in 1..Len(dates) : dates[i] = x})

\* C1: when the script is run twice on the same input, the user confirms both
\* times and the first run's save succeeds, the second run's
\* add_adjustment_events returns 0 and the output file holds after the second
\* run the events it held after the first
C1_SecondRunAddsNothing ==
    (run = "second" /\ first.confirmed /\ first.save = "ok" /\ Confirmed /\ AfterMerge) =>
        /\ added_count = 0
        /\ (pc = "done" => EventsIn(icsFile) = EventsIn(first.after))

\* C2: add_adjustment_events adds exactly one all-day event with the fixed
\* title for each distinct candidate date that is not covered on entry, none
\* for a covered date, keeps the events it was given, and returns the number
\* of distinct candidate dates not covered on entry, also when a date occurs
\* twice among the candidates
C2_OneEventPerNewDate ==
    pc = "merged" =>
        LET new == DatesOf(adjustment_dates.dates) \ entry.existing
            addedEvents == calendar \ entry.calendar
        IN  /\ added_count = Cardinality(new)
            /\ Cardinality(addedEvents) = Cardinality(new)
            /\ entry.calendar \subseteq calendar
            /\ \A e \in addedEvents : e.name = EVENT_SUMMARY /\ e.time = "" /\ e.date \in new
            /\ \A d \in new : Cardinality({e \in addedEvents : e.date = d}) = 1
            /\ existing_dates = entry.existing \cup DatesOf(adjustment_dates.dates)

C2_Witness ==
    /\ pc = "merged"
    /\ Len(adjustment_dates.dates) = 2
    /\ adjustment_dates.dates[1] = adjustment_dates.dates[2]
    /\ added_count = 1
    /\ entry.existing # {}

C2_WitnessCovered ==
    /\ pc = "merged"
    /\ Len(adjustment_dates.dates) = 2
    /\ adjustment_dates.dates[1] \in entry.existing
    /\ adjustment_dates.dates[2] \notin entry.existing
    /\ added_count = 1

\* C3: every event the output file held when a run started is still in the
\* output file when the run has ended
C3_NoEventDeleted ==
    pc = "done" => EventsIn(runStart) \subseteq EventsIn(icsFile)

\* the lines the reader does not ignore
IsCandidateLine(i) == ~IsIgnoredLine(Strip(txtFile.lines[i]))

\* the lines that match the pattern and spell a date of the calendar
IsValidLine(i) ==
    /\ IsCandidateLine(i)
    /\ MatchesDatePattern(Strip(txtFile.lines[i]))
    /\ LET v == FieldValues(Strip(txtFile.lines[i])) IN IsCalendarDate(v[1], v[2], v[3])

LineNumbers == 1..Len(txtFile.lines)

\* C4: after a confirmed read the returned list holds exactly the dates of the
\* lines that match the pattern of four, two and two digits and spell a date
\* of the calendar, each as often as lines hold it; every other line that is
\* neither blank nor a comment is in the rejected list, with its line number
\* and its reason (format error when the pattern does not match, invalid date
\* when it matches and spells no date), wherever in the file it stands
C4_ReaderKeepsValidLines ==
    (pc # "start" /\ txtFile.kind = "file") =>
        /\ confirm = Yes =>
             /\ adjustment_dates.kind = "list"
             /\ Len(adjustment_dates.dates) = Cardinality({i \in LineNumbers : IsValidLine(i)})
             /\ \A i \in LineNumbers : IsValidLine(i) =>
                  Occurrences(adjustment_dates.dates, FieldValues(Strip(txtFile.lines[i])))
                    = Cardinality({j \in LineNumbers :
                        /\ IsValidLine(j)
                        /\ FieldValues(Strip(txtFile.lines[j]))
                             = FieldValues(Strip(txtFile.lines[i]))})
        /\ Len(invalid_lines)
             = Cardinality({i \in LineNumbers : IsCandidateLine(i) /\ ~IsValidLine(i)})
        /\ \A i \in LineNumbers : (IsCandidateLine(i) /\ ~IsValidLine(i)) =>
             \E k \in 1..Len(invalid_lines) :
                /\ invalid_lines[k].line_num = i
                /\ invalid_lines[k].line = Strip(txtFile.lines[i])
                /\ invalid_lines[k].reason =
                     (IF MatchesDatePattern(Strip(txtFile.lines[i]))
                      THEN "invalid date" ELSE "format error")

\* C5: when the date file cannot be opened or read, the reader prints an
\* error, returns the empty list and lets no exception through
C5_ReadFailureReturnsEmptyList ==
    (pc = "read" /\ txtFile.kind \in {"missing", "unreadable", "broken"}) =>
        /\ adjustment_dates = ListOf(<<>>)
        /\ printed \cap {"file not found", "read error"} # {}
        /\ ~raised

\* C6: a run in which the reader found no valid date and the user answered
\* 'y' to the retry prompt does not end before the file was read again
C6_RetryReadsAgain ==
    (pc = "done" /\ retry = Yes) => scans >= 2

\* C7: when save_calendar fails, on opening the file or while writing, the
\* error is reported, no exception reaches the top level and the output file
\* holds what it held before the call
C7_FailedSaveKeepsFile ==
    save.outcome \in {"open fails", "write fails"} =>
        /\ icsFile = save.before
        /\ "save error" \in printed
        /\ ~raised

\* C8: load_or_create_calendar returns an empty document and an empty covered
\* set and lets no exception through when the file does not exist, when its
\* trimmed content does not begin and end with the container markers, and when
\* parsing a file that has the markers raises
C8_LoaderStartsFresh ==
    (/\ pc = "loaded"
     /\ \/ icsFile.kind = "missing"
        \/ icsFile.kind = "file" /\ Decodable(icsFile.content) /\ ~HasMarkers(icsFile.content)
        \/ /\ icsFile.kind = "file" /\ Decodable(icsFile.content)
           /\ HasMarkers(icsFile.content) /\ ParseCalendar(icsFile.content).raised) =>
        /\ calendar = {}
        /\ existing_dates = {}
        /\ ~raised

C8_Witness ==
    /\ pc = "loaded"
    /\ icsFile.kind = "file"
    /\ Decodable(icsFile.content)
    /\ HasMarkers(icsFile.content)
    /\ ParseCalendar(icsFile.content).raised
    /\ EventsIn(icsFile) # {}
    /\ calendar = {}

\* C9: for a well-formed output file the covered set is exactly the set of the
\* dates of the loaded events titled EVENT_SUMMARY, a start with a time of day
\* counted by its date
C9_CoveredAreTitledDates ==
    (/\ pc = "loaded"
     /\ icsFile.kind = "file"
     /\ Decodable(icsFile.content)
     /\ HasMarkers(icsFile.content)
     /\ ~ParseCalendar(icsFile.content).raised) =>
        /\ calendar = EventsIn(icsFile)
        /\ \A e \in calendar : e.name = EVENT_SUMMARY => e.date \in existing_dates
        /\ \A d \in existing_dates : \E e \in calendar : e.name = EVENT_SUMMARY /\ e.date = d

C9_Witness ==
    /\ pc = "loaded"
    /\ Cardinality(calendar) = 2
    /\ \E e \in calendar : e.name = EVENT_SUMMARY /\ e.time # ""
    /\ \E e \in calendar : e.name # EVENT_SUMMARY
    /\ existing_dates = { <<2025, 2, 8>> }

\* C10: save_calendar is called in a run exactly when the reader returned a
\* non-empty list and the merge added something; in every other run the
\* output file is left as it was; the usage instructions are printed exactly
\* in the runs that reached the merge
C10_SaveOnlyWhenAdded ==
    /\ save.outcome = "none" => icsFile = runStart
    /\ pc = "done" =>
         /\ save.outcome # "none" <=> (Confirmed /\ added_count > 0)
         /\ "usage" \in printed <=> Confirmed
         /\ Confirmed <=> printed \cap {"loaded", "ics missing", "ics invalid", "load error"} # {}
         /\ ~Confirmed => added_count = 0 /\ "exit message" \in printed

C10_Witness ==
    /\ pc = "done"
    /\ run = "first"
    /\ Confirmed
    /\ added_count = 0
    /\ save.outcome = "none"
    /\ "usage" \in printed
    /\ EventsIn(icsFile) # {}


=============================================================================
